---- MODULE Spec2Model ----
(***************************************************************************)
(* Model of the OpenClaw MCP server (src/index.js): the registry client,   *)
(* the instruction extractor, the four tool handlers and the tool-call     *)
(* dispatcher.                                                             *)
(*                                                                         *)
(* Text is modelled at two levels.  A Markdown document is a sequence of   *)
(* characters, of five kinds:                                              *)
(*     "H"  the literal  ## The Instruction  (one unit)                    *)
(*     "N"  a line feed                                                    *)
(*     "b"  one backtick; three in a row are the  ```  of the regular      *)
(*          expression, and one on its own is a character that is neither  *)
(*          a word character nor white space, like . or +                  *)
(*     "w"  one word character (regex class \w), e.g. x                    *)
(*     "s"  one white-space character other than line feed (space, \r)     *)
(* The documents are built from pieces: the characters, and "F", three     *)
(* backticks at once.                                                      *)
(* A short string (title, slug, tag, category, query) is a sequence of     *)
(* one-character strings.  A template literal of the source is a record    *)
(* whose tpl field holds the literal's opening words and whose other       *)
(* fields hold the interpolated values.                                    *)
(*                                                                         *)
(* Every handler is an async function that waits twice: for fetch() to     *)
(* settle (the status line and the headers of the response), and, when     *)
(* the status is a success, for the body (res.json() or res.text()).       *)
(* Between the two waits, and while either lasts, the steps of other       *)
(* calls take place.  A call is a process with a position of its own.      *)
(***************************************************************************)
EXTENDS Integers, Sequences, FiniteSets, TLC

VARIABLES
    markdown,    \* RawDocument handed to the extractor / served for a slug
    extracted,   \* what extractInstruction returned, once it has run
    indexDoc,    \* IndexDocument the index endpoint serves
    pc,          \* per tool call: "idle", "await_index", "await_index_body",
                 \*                "await_file", "await_file_body", "done"
    request,     \* per tool call: the request {name, arguments}
    response,    \* per tool call: the response to its fetch, as far as the
                 \*                call has received it
    indexFetches, \* per tool call: index fetches issued
    docFetches,  \* per tool call: document fetches issued
    result       \* per tool call: what the dispatcher's promise settled to

-----------------------------------------------------------------------------
(* Bounds of the model *)

MaxDocLen == 6
MaxEntries == 2
MaxCategories == 2
NumCalls == 2

-----------------------------------------------------------------------------
(* Generic helpers *)

Range(s) == {s[i] : i \in 1..Len(s)}

SeqsUpTo(S, n) == UNION {[1..k -> S] : k \in 0..n}

Slice(s, a, b) == [i \in 1..(IF b >= a THEN b - a + 1 ELSE 0) |-> s[a + i - 1]]

Min(S) == CHOOSE x \in S : \A y \in S : x <= y

\* JavaScript null / undefined
Null == <<>>
\* a defined value v, wrapped so that it never equals Null
Some(v) == <<v>>

-----------------------------------------------------------------------------
(* Instruction extractor: src/index.js 42-50 *)

\* the pieces the documents are built from
Token == {"H", "N", "F", "b", "w", "s"}

\* the characters of a piece
CharsOf(t) == IF t = "F" THEN <<"b", "b", "b">> ELSE <<t>>

\* the text built from a sequence of pieces
RECURSIVE Chars(_)
Chars(ts) == IF ts = <<>> THEN <<>> ELSE CharsOf(Head(ts)) \o Chars(Tail(ts))

\* the documents of up to n pieces
Documents(n) == {Chars(ts) : ts \in SeqsUpTo(Token, n)}

\* regex class \s
IsSpace(t) == t \in {"s", "N"}
\* regex class \w
IsWord(t) == t = "w"

\* String.prototype.trim
Trim(s) ==
    LET keep == {i \in 1..Len(s) : ~IsSpace(s[i])}
    IN  IF keep = {} THEN <<>>
        ELSE Slice(s, Min(keep), CHOOSE i \in keep : \A j \in keep : j <= i)

\* positions just after a match of  ## The Instruction\s*\n  that starts at i
HeadingEnds(d, i) ==
    IF d[i] # "H" THEN {}
    ELSE {j + 1 : j \in {j \in (i + 1)..Len(d) :
                            /\ d[j] = "N"
                            /\ \A k \in (i + 1)..(j - 1) : IsSpace(d[k])}}

\* the literal  ```  at position j
Fence(d, j) ==
    /\ j >= 1 /\ j + 2 <= Len(d)
    /\ d[j] = "b" /\ d[j + 1] = "b" /\ d[j + 2] = "b"

\* position just after a match of  ```[\w]*\n  that starts at j, or 0
FenceOpenEnd(d, j) ==
    IF ~Fence(d, j) THEN 0
    ELSE LET stop == {e \in (j + 3)..Len(d) : ~IsWord(d[e])}
         IN  IF stop = {} THEN 0
             ELSE IF d[Min(stop)] = "N" THEN Min(stop) + 1 ELSE 0

\* first ``` at or after position b (the lazy capture ends there), or 0
FenceClose(d, b) ==
    LET close == {k \in b..Len(d) : Fence(d, k)}
    IN  IF close = {} THEN 0 ELSE Min(close)

\* capture group 1 of the match that starts at heading i, wrapped, or Null.
\* The lazy [\s\S]*? tries the opening fences left to right from the end of
\* the heading match; every way of matching \s*\n ends inside one run of
\* white space, so the set of later opening fences is the same for each.
MatchAt(d, i) ==
    LET ends  == HeadingEnds(d, i)
        opens == IF ends = {} THEN {}
                 ELSE {j \in Min(ends)..Len(d) :
                          /\ FenceOpenEnd(d, j) # 0
                          /\ FenceClose(d, FenceOpenEnd(d, j)) # 0}
    IN  IF opens = {} THEN Null
        ELSE LET b == FenceOpenEnd(d, Min(opens))
             IN  Some(Slice(d, b, FenceClose(d, b) - 1))

\* markdown.match(/## The Instruction\s*\n[\s\S]*?```[\w]*\n([\s\S]*?)```/):
\* the leftmost start position that matches
RegexMatch(d) ==
    LET starts == {i \in 1..Len(d) : MatchAt(d, i) # Null}
    IN  IF starts = {} THEN Null ELSE MatchAt(d, Min(starts))

\* markdown.split(/## The Instruction/): the pieces between the headings
SplitOnHeading(d) ==
    LET hs    == {i \in 1..Len(d) : d[i] = "H"}
        cuts  == hs \cup {0, Len(d) + 1}
        next(c) == Min({x \in cuts : x > c})
        RECURSIVE pieces(_)
        pieces(c) == IF c = Len(d) + 1 THEN <<>>
                     ELSE <<Slice(d, c + 1, next(c) - 1)>> \o pieces(next(c))
    IN  pieces(0)

extractInstruction(d) ==
    LET match == RegexMatch(d)
        headerMatch == SplitOnHeading(d)
    IN  IF match # Null THEN Some(Trim(match[1]))
        ELSE IF Len(headerMatch) > 1 THEN Some(Trim(headerMatch[2]))
        ELSE Null

-----------------------------------------------------------------------------
(* Values of the JavaScript run-time *)

\* the promise of an async function: fulfilled with a value, rejected with
\* an Error, or pending at an await that has not settled yet
Return(v) == [threw |-> FALSE, value |-> v]
Throw(m) == [threw |-> TRUE, message |-> m]
Pending == [threw |-> FALSE, pending |-> TRUE]
IsPending(p) == "pending" \in DOMAIN p

\* o.f is defined on the JSON object o
Has(o, f) == f \in DOMAIN o

\* truthiness of o.f for a boolean, a string and a number field; an
\* undefined field is falsy
TruthyBool(o, f) == Has(o, f) /\ o[f]
TruthyStr(o, f) == Has(o, f) /\ o[f] # <<>>
TruthyNum(o, f) == Has(o, f) /\ o[f] # 0

\* a result envelope as the handlers build it (isError is not set)
TextResult(t) == [content |-> <<[type |-> "text", text |-> t]>>]
\* a result envelope as the dispatcher builds it on failure
ErrorResult(t) == [content |-> <<[type |-> "text", text |-> t]>>, isError |-> TRUE]

IsErrorSet(r) == "isError" \in DOMAIN r
TextOf(r) == r.content[1].text

-----------------------------------------------------------------------------
(* Registry client: src/index.js 24-40 *)

BASE_URL == "https://openclaw-sandy-eight.vercel.app"
INDEX_URL == <<BASE_URL, "/registry/index.json">>
FileUrl(slug) == <<BASE_URL, "/registry/", slug, ".md">>

\* What the call has of the response to its fetch.  fetch(url) settles to a
\* rejection (no response at all) or to a response with a status, whose body
\* is still on its way: Headers.  Response is the response once the read of its
\* body (res.json(), res.text()) has settled as well.
Rejected == [kind |-> "rejected"]
Headers(status) == [kind |-> "response", status |-> status]
Response(status, body) == [kind |-> "response", status |-> status, body |-> body]

\* Response.ok
ResOk(res) == res.status \in 200..299

\* What the read of a body settles to: the text of the body; for the index,
\* JSON text of a document or text that res.json() cannot parse; or the
\* failure of the stream before its end.
Text(doc) == [text |-> doc]
Json(doc) == [json |-> doc]
NotJson == [text |-> "<html>Bad Gateway</html>"]
Terminated == [error |-> "terminated"]

\* lines 35-40 on what the call has of the response: pending while the body
\* is awaited at line 39
fetchFile(slug, res) ==
    IF res.kind = "rejected" THEN Throw([tpl |-> "fetch failed"])
    ELSE IF ~ResOk(res)
         THEN Throw([tpl |-> "File not found",
                     slug |-> slug, status |-> res.status])
    ELSE IF ~Has(res, "body") THEN Pending
    ELSE IF Has(res.body, "error") THEN Throw([tpl |-> res.body.error])
    ELSE Return(res.body.text)

\* fetchIndex without the status test of line 31
MutFetchIndexIgnoreStatus(res) ==
    IF res.kind = "rejected" THEN Throw([tpl |-> "fetch failed"])
    ELSE IF ~Has(res, "body") THEN Pending
    ELSE IF Has(res.body, "error") THEN Throw([tpl |-> res.body.error])
    ELSE IF ~Has(res.body, "json") THEN Throw([tpl |-> "SyntaxError"])
    ELSE Return(res.body.json)

\* lines 29-33 on what the call has of the response: pending while the body
\* is awaited at line 32
fetchIndex(res) ==
    IF res.kind = "rejected" THEN Throw([tpl |-> "fetch failed"])
    ELSE IF ~ResOk(res)
         THEN Throw([tpl |-> "Registry unavailable", status |-> res.status])
    ELSE IF ~Has(res, "body") THEN Pending
    ELSE IF Has(res.body, "error") THEN Throw([tpl |-> res.body.error])
    ELSE IF ~Has(res.body, "json") THEN Throw([tpl |-> "SyntaxError"])
    ELSE Return(res.body.json)

-----------------------------------------------------------------------------
(* Strings of the index: sequences of one-character strings *)

UpperCase == <<"A", "B", "C", "D", "E", "F", "G", "H", "I", "J", "K", "L", "M",
               "N", "O", "P", "Q", "R", "S", "T", "U", "V", "W", "X", "Y", "Z">>
LowerCase == <<"a", "b", "c", "d", "e", "f", "g", "h", "i", "j", "k", "l", "m",
               "n", "o", "p", "q", "r", "s", "t", "u", "v", "w", "x", "y", "z">>

\* String.prototype.toLowerCase
ToLowerCase(str) ==
    [i \in 1..Len(str) |->
        IF \E k \in 1..Len(UpperCase) : UpperCase[k] = str[i]
        THEN LowerCase[CHOOSE k \in 1..Len(UpperCase) : UpperCase[k] = str[i]]
        ELSE str[i]]

\* String.prototype.includes
Includes(str, term) ==
    \E off \in 0..(Len(str) - Len(term)) :
        \A k \in 1..Len(term) : str[off + k] = term[k]

\* o.f for display in a template literal: the value, or undefined
Field(o, f) == IF Has(o, f) THEN Some(o[f]) ELSE Null

\* (e.tags || [])
TagsOf(e) == IF Has(e, "tags") THEN e.tags ELSE <<>>

\* (e.quality_score || 0)
ScoreOf(e) == IF Has(e, "quality_score") THEN e.quality_score ELSE 0

\* (index.entries || [])
EntriesOf(index) == IF Has(index, "entries") THEN index.entries ELSE <<>>

-----------------------------------------------------------------------------
(* search handler: src/index.js 121-165 *)

\* the callback of lines 127-132 on entry e: "yes", "no", or "throw" when it
\* calls toLowerCase on an undefined field (|| evaluates left to right and
\* stops at the first true operand)
QueryTest(e, term) ==
    IF ~Has(e, "title") THEN "throw"
    ELSE IF Includes(ToLowerCase(e.title), term) THEN "yes"
    ELSE IF \E i \in 1..Len(TagsOf(e)) : Includes(ToLowerCase(TagsOf(e)[i]), term)
         THEN "yes"
    ELSE IF ~Has(e, "slug") THEN "throw"
    ELSE IF Includes(ToLowerCase(e.slug), term) THEN "yes"
    ELSE IF ~Has(e, "category") THEN "throw"
    ELSE IF Includes(ToLowerCase(e.category), term) THEN "yes"
    ELSE "no"

\* line 134
CategoryTest(e, category) == Has(e, "category") /\ e.category = category

\* line 135 with > for >=
MutQualityTestStrict(e, min_quality) == ScoreOf(e) > min_quality

\* line 135
QualityTest(e, min_quality) == ScoreOf(e) >= min_quality

\* line 136 testing that featured is defined instead of truthy
MutFeaturedTestDefined(e) == Has(e, "featured")

\* line 136
FeaturedTest(e) == TruthyBool(e, "featured")

\* lines 148-156: the lines printed for one entry
FormatEntry(e) ==
    [title |-> Field(e, "title"), slug |-> Field(e, "slug"),
     category |-> Field(e, "category"), quality |-> Field(e, "quality_score"),
     featured |-> TruthyBool(e, "featured"), tags |-> TagsOf(e),
     url |-> Field(e, "url")]

\* lines 123-164: the handler on the index it awaited.
\* a = {q, category, min_quality, featured_only}, each optional
SearchIndex(a, index) ==
    LET all == EntriesOf(index)
        term == ToLowerCase(a.q)
        byQ(e) == QueryTest(e, term) = "yes"
        byCategory(e) == CategoryTest(e, a.category)
        byQuality(e) == QualityTest(e, a.min_quality)
        qThrows == TruthyStr(a, "q")
                   /\ \E i \in 1..Len(all) : QueryTest(all[i], term) = "throw"
        r1 == IF TruthyStr(a, "q") THEN SelectSeq(all, byQ) ELSE all
        r2 == IF TruthyStr(a, "category") THEN SelectSeq(r1, byCategory) ELSE r1
        r3 == IF TruthyNum(a, "min_quality") THEN SelectSeq(r2, byQuality) ELSE r2
        results == IF TruthyBool(a, "featured_only") THEN SelectSeq(r3, FeaturedTest) ELSE r3
    IN  IF qThrows THEN Throw([tpl |-> "TypeError"])
        ELSE IF Len(results) = 0
        THEN IF ~Has(index, "categories") THEN Throw([tpl |-> "TypeError"])
             ELSE Return(TextResult(
                    [tpl |-> "No results found", count |-> Field(index, "count"),
                     categories |-> Len(index.categories)]))
        ELSE Return(TextResult(
                [tpl |-> "Found", n |-> Len(results),
                 results |-> [i \in 1..Len(results) |-> FormatEntry(results[i])]]))

\* res = what the call has of the response to its index fetch: the handler is
\* pending at line 122 until the index is there
handleSearchRegistry(a, res) ==
    LET fetched == fetchIndex(res)
    IN  IF IsPending(fetched) \/ fetched.threw THEN fetched
        ELSE SearchIndex(a, fetched.value)

-----------------------------------------------------------------------------
(* list-categories handler: src/index.js 196-228 *)

\* the keys of categoryInfo (lines 201-207), and a name that is no key
SystemPrompts == <<"s", "y", "s", "t", "e", "m", "-", "p", "r", "o",
    "m", "p", "t", "s">>
Skills == <<"s", "k", "i", "l", "l", "s">>
Workflows == <<"w", "o", "r", "k", "f", "l", "o", "w", "s">>
ToolDefinitions == <<"t", "o", "o", "l", "-", "d", "e", "f", "i", "n",
    "i", "t", "i", "o", "n", "s">>
DomainPacks == <<"d", "o", "m", "a", "i", "n", "-", "p", "a", "c", "k",
    "s">>
SafetyFilters == <<"s", "a", "f", "e", "t", "y", "-", "f", "i", "l",
    "t", "e", "r", "s">>
Orchestration == <<"o", "r", "c", "h", "e", "s", "t", "r", "a", "t",
    "i", "o", "n">>
Ops == <<"o", "p", "s">>

\* A description is a sequence of pieces of text.  The character U+2014 (em
\* dash) of lines 201, 202 and 205 is a piece of its own.
EmDash == "U+2014"

\* categoryInfo is an object literal, which inherits the properties of
\* Object.prototype: categoryInfo[cat] is defined for their names as well.
\* The functions among them, with the text a template literal gives them:
ObjectPrototypeFunctions ==
    { [name |-> <<"c", "o", "n", "s", "t", "r", "u", "c", "t", "o", "r">>,
       text |-> "function Object() { [native code] }"],
      [name |-> <<"h", "a", "s", "O", "w", "n", "P", "r", "o", "p", "e",
                 "r", "t", "y">>,
       text |-> "function hasOwnProperty() { [native code] }"],
      [name |-> <<"i", "s", "P", "r", "o", "t", "o", "t", "y", "p", "e",
                 "O", "f">>,
       text |-> "function isPrototypeOf() { [native code] }"],
      [name |-> <<"p", "r", "o", "p", "e", "r", "t", "y", "I", "s", "E",
                 "n", "u", "m", "e", "r", "a", "b", "l", "e">>,
       text |-> "function propertyIsEnumerable() { [native code] }"],
      [name |-> <<"t", "o", "L", "o", "c", "a", "l", "e", "S", "t", "r",
                 "i", "n", "g">>,
       text |-> "function toLocaleString() { [native code] }"],
      [name |-> <<"t", "o", "S", "t", "r", "i", "n", "g">>,
       text |-> "function toString() { [native code] }"],
      [name |-> <<"v", "a", "l", "u", "e", "O", "f">>,
       text |-> "function valueOf() { [native code] }"],
      [name |-> <<"_", "_", "d", "e", "f", "i", "n", "e", "G", "e", "t",
                 "t", "e", "r", "_", "_">>,
       text |-> "function __defineGetter__() { [native code] }"],
      [name |-> <<"_", "_", "d", "e", "f", "i", "n", "e", "S", "e", "t",
                 "t", "e", "r", "_", "_">>,
       text |-> "function __defineSetter__() { [native code] }"],
      [name |-> <<"_", "_", "l", "o", "o", "k", "u", "p", "G", "e", "t",
                 "t", "e", "r", "_", "_">>,
       text |-> "function __lookupGetter__() { [native code] }"],
      [name |-> <<"_", "_", "l", "o", "o", "k", "u", "p", "S", "e", "t",
                 "t", "e", "r", "_", "_">>,
       text |-> "function __lookupSetter__() { [native code] }"] }

\* the accessor __proto__, whose value is Object.prototype itself
ProtoName == <<"_", "_", "p", "r", "o", "t", "o", "_", "_">>

\* lines 200-208 and 218: categoryInfo[cat] || ''
CategoryDesc(cat) ==
    IF cat = SystemPrompts
    THEN <<"Full agent identity and behavior definitions ", EmDash,
           " the complete personality and rules for an agent">>
    ELSE IF cat = Skills
    THEN <<"Scoped capability modules for specific tasks ", EmDash,
           " drop into any agent to add a capability">>
    ELSE IF cat = Workflows
    THEN <<"Multi-step sequential or conditional process instructions">>
    ELSE IF cat = ToolDefinitions
    THEN <<"Function schemas, API patterns, and tool usage instructions">>
    ELSE IF cat = DomainPacks
    THEN <<"Deep field context ", EmDash,
           " industry knowledge, terminology, and domain standards">>
    ELSE IF cat = SafetyFilters
    THEN <<"Output validation, content filtering, and harm detection patterns">>
    ELSE IF cat = Orchestration
    THEN <<"Multi-agent coordination and handoff protocols">>
    ELSE IF \E f \in ObjectPrototypeFunctions : f.name = cat
    THEN <<(CHOOSE f \in ObjectPrototypeFunctions : f.name = cat).text>>
    ELSE IF cat = ProtoName THEN <<"[object Object]">>
    ELSE <<>>

\* line 213 without the test on the entry's category
MutCountAllEntries(index, cat) == Len(EntriesOf(index))

\* the key of counts an entry without a category is counted under
UndefinedName == <<"u", "n", "d", "e", "f", "i", "n", "e", "d">>

\* lines 210-214 and 217: counts[cat] || 0 after the two loops.  counts has a
\* key for every declared category, and an entry adds one to the key of its
\* own category when that key exists.  The name __proto__ never becomes a key
\* of counts: counts[cat] is Object.prototype, printed as [object Object].
CountOf(index, cat) ==
    IF cat = ProtoName THEN "[object Object]"
    ELSE Cardinality({i \in 1..Len(EntriesOf(index)) :
                        IF Has(EntriesOf(index)[i], "category")
                        THEN EntriesOf(index)[i].category = cat
                        ELSE cat = UndefinedName})

\* lines 198-227: the handler on the index it awaited
ListIndex(index) ==
    IF ~Has(index, "categories") THEN Throw([tpl |-> "TypeError"])
    ELSE Return(TextResult(
                [tpl |-> "OpenClaw Registry", count |-> Field(index, "count"),
                 lines |-> [i \in 1..Len(index.categories) |->
                              [cat |-> index.categories[i],
                               count |-> CountOf(index, index.categories[i]),
                               desc |-> CategoryDesc(index.categories[i])]]]))

\* pending at line 197 until the index is there
handleListCategories(res) ==
    LET fetched == fetchIndex(res)
    IN  IF IsPending(fetched) \/ fetched.threw THEN fetched
        ELSE ListIndex(fetched.value)

-----------------------------------------------------------------------------
(* list-featured handler: src/index.js 230-244 *)

\* line 235
FormatFeatured(e) ==
    [title |-> Field(e, "title"), category |-> Field(e, "category"),
     slug |-> Field(e, "slug"), quality |-> Field(e, "quality_score"),
     tags |-> TagsOf(e)]

\* lines 232-243: the handler on the index it awaited
FeaturedOf(index) ==
    LET featured == SelectSeq(EntriesOf(index), FeaturedTest)
    IN  Return(TextResult(
            [tpl |-> "Featured files", n |-> Len(featured),
             results |-> [i \in 1..Len(featured) |-> FormatFeatured(featured[i])]]))

\* pending at line 231 until the index is there
handleGetFeatured(res) ==
    LET fetched == fetchIndex(res)
    IN  IF IsPending(fetched) \/ fetched.threw THEN fetched
        ELSE FeaturedOf(fetched.value)

-----------------------------------------------------------------------------
(* fetch-one handler: src/index.js 167-194 *)

SlugOf(a) == IF Has(a, "slug") THEN a.slug ELSE "undefined"

\* line 172 with instruction === null for !instruction
MutInstructionReplyNullCheck(a, doc) ==
    IF TruthyBool(a, "instruction_only")
    THEN LET instruction == extractInstruction(doc)
         IN  IF instruction = Null
             THEN Return(TextResult(
                    [tpl |-> "Could not extract instruction",
                     slug |-> SlugOf(a), markdown |-> doc]))
             ELSE Return(TextResult(
                    [tpl |-> "# Instruction",
                     slug |-> SlugOf(a), instruction |-> instruction[1],
                     url |-> FileUrl(SlugOf(a))]))
    ELSE Return(TextResult([tpl |-> "markdown", markdown |-> doc]))

\* lines 170-193: the handler on the document it awaited.
\* a = {slug, instruction_only}.  !instruction holds for null and for the
\* empty string.
InstructionReply(a, doc) ==
    IF TruthyBool(a, "instruction_only")
    THEN LET instruction == extractInstruction(doc)
         IN  IF instruction = Null \/ instruction = Some(<<>>)
             THEN Return(TextResult(
                    [tpl |-> "Could not extract instruction",
                     slug |-> SlugOf(a), markdown |-> doc]))
             ELSE Return(TextResult(
                    [tpl |-> "# Instruction",
                     slug |-> SlugOf(a), instruction |-> instruction[1],
                     url |-> FileUrl(SlugOf(a))]))
    ELSE Return(TextResult([tpl |-> "markdown", markdown |-> doc]))

\* res = what the call has of the response to its document fetch: the
\* handler is pending at line 168 until the document is there.  An undefined
\* slug is interpolated as the text "undefined".
handleGetInstruction(a, res) ==
    LET file == fetchFile(SlugOf(a), res)
    IN  IF IsPending(file) \/ file.threw THEN file
        ELSE InstructionReply(a, file.value)

\* the templates of lines 176 and 183
IsExtractionNotice(t) ==
    t.tpl = "Could not extract instruction"
IsInstructionText(t) ==
    t.tpl = "# Instruction"

-----------------------------------------------------------------------------
(* Dispatcher: src/index.js 255-273 *)

IndexTools == {"search_registry", "list_categories", "get_featured"}
KnownTools == IndexTools \cup {"get_instruction"}

\* args || {}
ArgsOf(req) == IF Has(req, "arguments") THEN req.arguments ELSE [x \in {} |-> x]

\* lines 260-263: the handler the switch selects, run on what the call has of
\* the response to its fetch
RunHandler(req, res) ==
    CASE req.name = "search_registry" -> handleSearchRegistry(ArgsOf(req), res)
      [] req.name = "get_instruction" -> handleGetInstruction(ArgsOf(req), res)
      [] req.name = "list_categories" -> handleListCategories(res)
      [] req.name = "get_featured" -> handleGetFeatured(res)

\* the request handler without the try/catch of lines 258 and 267-272
MutCallToolNoCatch(req, res) ==
    IF req.name \in KnownTools
    THEN RunHandler(req, res)
    ELSE Return(ErrorResult([tpl |-> "Unknown tool", name |-> req.name]))

\* lines 258 and 267-272: the try/catch around the promise of the handler
Caught(ran) ==
    IF IsPending(ran) THEN Pending
    ELSE IF ran.threw
    THEN Return(ErrorResult([tpl |-> "Error", message |-> ran.message]))
    ELSE Return(ran.value)

\* the request handler: its promise, pending while the handler is
CallTool(req, res) ==
    IF req.name \in KnownTools
    THEN Caught(RunHandler(req, res))
    ELSE Return(ErrorResult([tpl |-> "Unknown tool", name |-> req.name]))

\* a handler that fetches the index a second time
MutIndexFetchedTwice(name) == IF name \in IndexTools THEN 2 ELSE 0

\* fetchIndex() calls on a handler's path: lines 122, 197, 231
IndexFetchesOf(name) == IF name \in IndexTools THEN 1 ELSE 0

\* fetchFile() calls on a handler's path: line 168
DocFetchesOf(name) == IF name = "get_instruction" THEN 1 ELSE 0

-----------------------------------------------------------------------------
(* Tool calls in flight: src/index.js 255-273 with the awaits of 30-39 *)

Calls == 1..NumCalls

vars == <<markdown, extracted, indexDoc,
          pc, request, response, indexFetches, docFetches, result>>

callVars == <<pc, request, response, indexFetches, docFetches, result>>
registryVars == <<markdown, extracted, indexDoc>>

NoRequest == [name |-> ""]
NoResponse == [kind |-> "none"]

NoCalls ==
    /\ pc = [c \in Calls |-> "idle"]
    /\ request = [c \in Calls |-> NoRequest]
    /\ response = [c \in Calls |-> NoResponse]
    /\ indexFetches = [c \in Calls |-> 0]
    /\ docFetches = [c \in Calls |-> 0]
    /\ result = [c \in Calls |-> Null]

NoIndex == [count |-> 0, categories |-> <<>>, entries |-> <<>>]
NoArgs == [x \in {} |-> x]

\* res kept in a variable of the module, which another call overwrites
MutSharedResponse(c, res) ==
    IF \E d \in Calls : d # c /\ pc[d] = "done" /\ response[d].kind = res.kind
    THEN response[CHOOSE d \in Calls :
                    d # c /\ pc[d] = "done" /\ response[d].kind = res.kind]
    ELSE res

\* lines 30 and 37: res is a constant local to the call that awaited it
ResponseSeenBy(c, res) == res

\* The host delivers a tool call with a request of Requests (line 255): the
\* handler runs up to its first await, the fetch of line 30 or 37.  A name
\* without a handler is answered at once (lines 264-265).
Call(c, Requests) ==
    /\ pc[c] = "idle"
    /\ \E req \in Requests :
          /\ request' = [request EXCEPT ![c] = req]
          /\ indexFetches' = [indexFetches EXCEPT ![c] = @ + IndexFetchesOf(req.name)]
          /\ docFetches' = [docFetches EXCEPT ![c] = @ + DocFetchesOf(req.name)]
          /\ IF IndexFetchesOf(req.name) > 0
             THEN pc' = [pc EXCEPT ![c] = "await_index"] /\ UNCHANGED result
             ELSE IF DocFetchesOf(req.name) > 0
             THEN pc' = [pc EXCEPT ![c] = "await_file"] /\ UNCHANGED result
             ELSE /\ pc' = [pc EXCEPT ![c] = "done"]
                  /\ result' = [result EXCEPT ![c] = Some(CallTool(req, NoResponse))]
    /\ UNCHANGED <<response, registryVars>>

\* The promise of call c is now promise: the call stays at its next await
\* (position waiting) while it is pending, and ends with what it settled to.
Proceed(c, waiting, promise) ==
    IF IsPending(promise)
    THEN pc' = [pc EXCEPT ![c] = waiting] /\ UNCHANGED result
    ELSE /\ pc' = [pc EXCEPT ![c] = "done"]
         /\ result' = [result EXCEPT ![c] = Some(promise)]

\* Call c resumes with res, what it now has of the response to its fetch, and
\* runs to its next await or to its end.
Resume(c, res, waiting) ==
    /\ response' = [response EXCEPT ![c] = res]
    /\ Proceed(c, waiting, CallTool(request[c], ResponseSeenBy(c, res)))
    /\ UNCHANGED <<request, indexFetches, docFetches, registryVars>>

\* line 30: the index fetch of call c settles, to a rejection or to one of
\* Heads.  The call ends on a rejection and on a failure status (line 31) and
\* goes on to wait for the body otherwise (line 32).
IndexFetched(c, Heads) ==
    /\ pc[c] = "await_index"
    /\ \E head \in Heads : Resume(c, head, "await_index_body")

\* line 32: res.json() of call c settles, to one of Bodies, and the handler
\* runs to its end
IndexBodyRead(c, Bodies) ==
    /\ pc[c] = "await_index_body"
    /\ \E body \in Bodies :
          Resume(c, Response(response[c].status, body), "await_index_body")

\* line 37: the document fetch of call c settles, to a rejection or to one of
\* Heads.  The call ends on a rejection and on a failure status (line 38) and
\* goes on to wait for the body otherwise (line 39).
FileFetched(c, Heads) ==
    /\ pc[c] = "await_file"
    /\ \E head \in Heads : Resume(c, head, "await_file_body")

\* line 39: res.text() of call c settles, to one of Bodies, and the handler
\* runs to its end
FileBodyRead(c, Bodies) ==
    /\ pc[c] = "await_file_body"
    /\ \E body \in Bodies :
          Resume(c, Response(response[c].status, body), "await_file_body")

\* the call that the specifications of one handler follow
OneCall == {1}

-----------------------------------------------------------------------------
(* The extractor and the fetch-one handler on every bounded document *)

Slugs == {"tier1-customer-support", "structured-web-research"}

\* the argument objects of get_instruction: instruction_only is optional
GetInstructionArgs ==
    {[slug |-> "tier1-customer-support"]}
    \cup {[slug |-> "tier1-customer-support", instruction_only |-> FALSE]}
    \cup {[slug |-> g, instruction_only |-> TRUE] : g \in Slugs}

GetInstructionRequests ==
    {[name |-> "get_instruction", arguments |-> a] : a \in GetInstructionArgs}

InitExtract ==
    /\ markdown \in Documents(MaxDocLen)
    /\ extracted = Null
    /\ indexDoc = NoIndex
    /\ NoCalls

\* extractInstruction applied to the document
Extract ==
    /\ extracted = Null
    /\ \A c \in Calls : pc[c] = "idle"
    /\ extracted' = Some(extractInstruction(markdown))
    /\ UNCHANGED <<markdown, indexDoc, callVars>>

\* get_instruction calls, whose document fetch succeeds and delivers the
\* document
NextExtract ==
    \/ Extract
    \/ \E c \in OneCall :
          \/ extracted = Null /\ Call(c, GetInstructionRequests)
          \/ FileFetched(c, {Headers(200)})
          \/ FileBodyRead(c, {Text(markdown)})

SpecExtract == InitExtract /\ [][NextExtract]_vars

-----------------------------------------------------------------------------
(* The search handler on every bounded index and argument object *)

Safe == <<"S", "a", "f", "e">>
Bot == <<"B", "o", "t">>
SAFETY == <<"S", "A", "F", "E", "T", "Y">>

\* title, slug, category and tags of the entries: the text "safe" occurs in
\* the title, in a tag, in the slug, or nowhere
EntryTexts ==
    { [title |-> Safe, slug |-> <<"a", "1">>, category |-> Skills],
      [title |-> Bot, slug |-> <<"a", "2">>, category |-> Skills,
       tags |-> <<<<"x">>, SAFETY>>],
      [title |-> Bot, slug |-> <<"s", "a", "f", "e", "3">>, category |-> Ops,
       tags |-> <<>>],
      [title |-> Bot, slug |-> <<"a", "4">>, category |-> Workflows,
       tags |-> <<<<"x">>>>] }

\* quality_score and featured of the entries, both optional
EntryScores ==
    { NoArgs,
      [quality_score |-> 79, featured |-> FALSE],
      [quality_score |-> 80, featured |-> TRUE] }

SearchEntries ==
    {t @@ q @@ [url |-> "https://openclaw-sandy-eight.vercel.app/registry/x.md"] :
        t \in EntryTexts, q \in EntryScores}

SearchIndexes ==
    {[count |-> Len(es), categories |-> <<Skills, Workflows>>, entries |-> es] :
        es \in SeqsUpTo(SearchEntries, MaxEntries)}

\* the argument objects of search_registry: every field optional; category
\* is one of the enumerated names (lines 65-69)
SearchArgs ==
    {q @@ c @@ m @@ f :
        q \in {NoArgs, [q |-> <<>>], [q |-> <<"S", "A", "F", "E">>],
               [q |-> <<"k", "i", "l">>]},
        c \in {NoArgs, [category |-> Skills], [category |-> Workflows]},
        m \in {NoArgs, [min_quality |-> 0], [min_quality |-> 79],
               [min_quality |-> 80]},
        f \in {NoArgs, [featured_only |-> TRUE], [featured_only |-> FALSE]}}

SearchRequests ==
    {[name |-> "search_registry", arguments |-> a] : a \in SearchArgs}

InitSearch ==
    /\ markdown = <<>>
    /\ extracted = Null
    /\ indexDoc \in SearchIndexes
    /\ NoCalls

\* search_registry calls, whose index fetch succeeds and delivers the index
NextSearch ==
    \E c \in OneCall :
        \/ Call(c, SearchRequests)
        \/ IndexFetched(c, {Headers(200)})
        \/ IndexBodyRead(c, {Json(indexDoc)})

SpecSearch == InitSearch /\ [][NextSearch]_vars

-----------------------------------------------------------------------------
(* The list-categories handler on every bounded index *)

CategoryEntries ==
    {[title |-> Bot, slug |-> <<"a", "1">>, category |-> c,
      url |-> "https://openclaw-sandy-eight.vercel.app/registry/x.md"] :
        c \in {Skills, Workflows, Ops}}

\* the index as the endpoint may serve it: count and categories are fields
\* of their own, which the server does not check against entries
CategoryIndexes ==
    {[count |-> n, categories |-> cs, entries |-> es] :
        n \in 0..(MaxEntries + 1),
        cs \in SeqsUpTo({Skills, Workflows}, MaxCategories),
        es \in SeqsUpTo(CategoryEntries, MaxEntries)}

InitCategories ==
    /\ markdown = <<>>
    /\ extracted = Null
    /\ indexDoc \in CategoryIndexes
    /\ NoCalls

\* list_categories calls, whose index fetch succeeds and delivers the index
NextCategories ==
    \E c \in OneCall :
        \/ Call(c, {[name |-> "list_categories"]})
        \/ IndexFetched(c, {Headers(200)})
        \/ IndexBodyRead(c, {Json(indexDoc)})

SpecCategories == InitCategories /\ [][NextCategories]_vars

-----------------------------------------------------------------------------
(* The dispatcher under every interleaving of the calls in flight *)

GoodIndex ==
    [count |-> 2, categories |-> <<Skills, Workflows>>,
     entries |-> <<[title |-> Safe, slug |-> <<"a", "1">>, category |-> Skills,
                    quality_score |-> 80, featured |-> TRUE,
                    url |-> "https://openclaw-sandy-eight.vercel.app/registry/x.md"],
                   [title |-> Bot, slug |-> <<"a", "4">>, category |-> Ops,
                    tags |-> <<<<"x">>>>,
                    url |-> "https://openclaw-sandy-eight.vercel.app/registry/x.md"]>>]

\* JSON that parses but is no IndexDocument: no categories, an entry
\* without a title
BrokenIndex ==
    [count |-> 1, entries |-> <<[slug |-> <<"a", "1">>, category |-> Skills]>>]

\* what the fetches settle to: a rejection or a status
IndexHeads == {Rejected, Headers(503), Headers(404), Headers(200)}
FileHeads == {Rejected, Headers(404), Headers(200)}

\* what the reads of the bodies settle to
IndexBodies == {NotJson, Json(GoodIndex), Json(BrokenIndex), Terminated}
FileBodies ==
    {Text(Chars(<<"H", "N", "F", "N", "w", "N", "F">>)), Text(<<"w", "N">>),
     Terminated}

ToolRequests ==
    {[name |-> "search_registry"], [name |-> "list_categories"],
     [name |-> "get_featured", arguments |-> NoArgs],
     [name |-> "search_registry", arguments |-> [q |-> <<"S", "A", "F", "E">>]],
     [name |-> "search_registry", arguments |-> [category |-> Workflows]],
     [name |-> "get_instruction"],
     [name |-> "get_instruction", arguments |-> [slug |-> "tier1-customer-support"]],
     [name |-> "get_instruction",
      arguments |-> [slug |-> "tier1-customer-support", instruction_only |-> TRUE]],
     [name |-> "delete_registry", arguments |-> NoArgs],
     [name |-> "searchRegistry"]}

Init ==
    /\ markdown = <<>>
    /\ extracted = Null
    /\ indexDoc = NoIndex
    /\ NoCalls

Next ==
    \E c \in Calls :
        \/ Call(c, ToolRequests)
        \/ IndexFetched(c, IndexHeads)
        \/ IndexBodyRead(c, IndexBodies)
        \/ FileFetched(c, FileHeads)
        \/ FileBodyRead(c, FileBodies)

Spec == Init /\ [][Next]_vars

-----------------------------------------------------------------------------
(* What a call ended with *)

Done(c) == pc[c] = "done"
Outcome(c) == result[c][1]
Envelope(c) == Outcome(c).value
Arguments(c) == ArgsOf(request[c])

IsErrorEnvelope(env) ==
    /\ IsErrorSet(env) /\ env.isError
    /\ Len(env.content) = 1 /\ env.content[1].type = "text"

\* call c of the tool name has ended after both of its waits succeeded and
\* the read of the body delivered body
Answered(c, name, body) ==
    /\ Done(c)
    /\ request[c].name = name
    /\ response[c] = Response(200, body)

-----------------------------------------------------------------------------
(* Claims about the extractor and the fetch-one handler (SpecExtract) *)

\* The document as the claims read it.  The heading is the first line that
\* consists of  ## The Instruction  (white space may follow it on the line).
\* A fenced block opens with a line of exactly three backticks, an optional
\* language tag of word characters and optional trailing white space, and
\* closes at the next three backticks.
HeadingLines(d) ==
    {i \in 1..Len(d) :
        /\ d[i] = "H"
        /\ \E j \in (i + 1)..Len(d) :
              d[j] = "N" /\ \A k \in (i + 1)..(j - 1) : d[k] = "s"}

\* start of the interior of a fenced block whose opening line starts at j, or 0
BlockInterior(d, j) ==
    IF ~Fence(d, j) \/ (j > 1 /\ d[j - 1] = "b") THEN 0
    ELSE LET eol == {e \in (j + 3)..Len(d) : d[e] = "N"}
         IN  IF eol = {} THEN 0
             ELSE IF \A k \in (j + 3)..(Min(eol) - 1) :
                        /\ d[k] \in {"w", "s"}
                        /\ (d[k] = "w" => \A m \in (j + 3)..k : d[m] = "w")
                  THEN Min(eol) + 1 ELSE 0

\* opening lines of the fenced blocks that start after position h and close
BlocksAfter(d, h) ==
    {j \in (h + 1)..Len(d) :
        BlockInterior(d, j) # 0 /\ FenceClose(d, BlockInterior(d, j)) # 0}

FirstBlockText(d, h) ==
    LET b == BlockInterior(d, Min(BlocksAfter(d, h)))
    IN  Trim(Slice(d, b, FenceClose(d, b) - 1))

\* C4: whenever the heading is followed later by a fenced block, extract
\* returns the trimmed interior of the first fenced block after the heading.
C4_FirstFencedBlock ==
    (/\ extracted # Null
     /\ HeadingLines(markdown) # {}
     /\ BlocksAfter(markdown, Min(HeadingLines(markdown))) # {})
    => extracted[1] = Some(FirstBlockText(markdown, Min(HeadingLines(markdown))))

\* C8: when no three backticks follow the heading, extract returns everything
\* after the heading, trimmed, if that is non-empty, and absent if it is
\* empty or the document has no heading.  (For the empty remainder the
\* empty text is accepted as absent here: the caller treats the two alike.)
Headings(d) == {i \in 1..Len(d) : d[i] = "H"}

NoFenceAfterHeading(d) ==
    \A h \in Headings(d) : \A k \in (h + 1)..Len(d) : ~Fence(d, k)

TextAfterHeading(d) == Trim(Slice(d, Min(Headings(d)) + 1, Len(d)))

C8_FallbackRemainder ==
    (extracted # Null /\ NoFenceAfterHeading(markdown))
    => IF Headings(markdown) = {} THEN extracted[1] = Null
       ELSE IF TextAfterHeading(markdown) = <<>> THEN extracted[1] \in {Null, Some(<<>>)}
       ELSE extracted[1] = Some(TextAfterHeading(markdown))

\* call c is a get_instruction call with instruction_only = true that has
\* ended after a successful fetch of the document
OnlyReplied(c) ==
    /\ Answered(c, "get_instruction", Text(markdown))
    /\ TruthyBool(Arguments(c), "instruction_only")

WrappedReply(c) ==
    /\ ~Outcome(c).threw
    /\ ~IsErrorSet(Envelope(c))
    /\ IsInstructionText(TextOf(Envelope(c)))
    /\ extractInstruction(markdown) # Null
    /\ TextOf(Envelope(c)).instruction = extractInstruction(markdown)[1]
    /\ TextOf(Envelope(c)).slug = Arguments(c).slug
    /\ TextOf(Envelope(c)).url = FileUrl(Arguments(c).slug)

NoticeReply(c) ==
    /\ ~Outcome(c).threw
    /\ ~IsErrorSet(Envelope(c))
    /\ IsExtractionNotice(TextOf(Envelope(c)))
    /\ TextOf(Envelope(c)).slug = Arguments(c).slug
    /\ TextOf(Envelope(c)).markdown = markdown

\* C3 as stated: the wrapped text whenever the extractor returns a value, the
\* full document with the notice exactly when it returns absent, never an
\* error envelope.  (Stated for the documents in which the extractor finds a
\* fenced block, whose interior is the value it returns.)
C3_AsStated ==
    \A c \in Calls : (OnlyReplied(c) /\ RegexMatch(markdown) # Null) =>
        /\ (extractInstruction(markdown) # Null => WrappedReply(c))
        /\ (extractInstruction(markdown) = Null <=> NoticeReply(c))

\* C3 amended: the wrapped text whenever the extractor returns a non-empty
\* text, the full document with the notice exactly when it returns absent or
\* the empty text, never an error envelope.
C3_NonEmptyWrapped ==
    \A c \in Calls : OnlyReplied(c) =>
        /\ (extractInstruction(markdown) \notin {Null, Some(<<>>)} => WrappedReply(c))
        /\ (extractInstruction(markdown) \in {Null, Some(<<>>)} <=> NoticeReply(c))

\* an empty fenced block under the heading: the extractor returns the empty
\* text and the call replies with the notice and the whole document
C3_Witness ==
    \E c \in Calls :
        /\ OnlyReplied(c)
        /\ RegexMatch(markdown) = Some(<<"N">>)
        /\ extractInstruction(markdown) = Some(<<>>)
        /\ NoticeReply(c)

-----------------------------------------------------------------------------
(* Claims about the search handler (SpecSearch) *)

\* a and b are the same character up to letter case
SameLetter(a, b) ==
    a = b \/ \E k \in 1..Len(UpperCase) : {a, b} = {UpperCase[k], LowerCase[k]}

\* q is a case-insensitive substring of str
ContainsIgnoringCase(str, q) ==
    \E off \in 0..(Len(str) - Len(q)) :
        \A k \in 1..Len(q) : SameLetter(str[off + k], q[k])

\* call c is a search that has ended after a successful fetch of the index
Searched(c) == Answered(c, "search_registry", Json(indexDoc))

\* the entries the reply of call c lists
Listed(c) ==
    IF TextOf(Envelope(c)).tpl = "Found" THEN Range(TextOf(Envelope(c)).results)
    ELSE {}

SatisfiesSupplied(e, a) ==
    /\ Has(a, "q") =>
          \/ ContainsIgnoringCase(e.title, a.q)
          \/ ContainsIgnoringCase(e.slug, a.q)
          \/ ContainsIgnoringCase(e.category, a.q)
          \/ Has(e, "tags") /\ \E t \in Range(e.tags) : ContainsIgnoringCase(t, a.q)
    /\ Has(a, "category") => e.category = a.category
    /\ Has(a, "min_quality") =>
          (IF Has(e, "quality_score") THEN e.quality_score ELSE 0) >= a.min_quality
    /\ (Has(a, "featured_only") /\ a.featured_only) => (Has(e, "featured") /\ e.featured)

\* C2: every entry search lists is an entry of the index that satisfies every
\* supplied filter.
C2_ListedSatisfyFilters ==
    \A c \in Calls : Searched(c) =>
        /\ ~Outcome(c).threw
        /\ ~IsErrorSet(Envelope(c))
        /\ \A block \in Listed(c) :
              \E e \in Range(indexDoc.entries) :
                  FormatEntry(e) = block /\ SatisfiesSupplied(e, Arguments(c))

\* all four filters supplied, one entry listed and another one filtered out
C2_Witness ==
    \E c \in Calls :
        /\ Searched(c)
        /\ DOMAIN Arguments(c) = {"q", "category", "min_quality", "featured_only"}
        /\ Arguments(c).q # <<>>
        /\ Arguments(c).min_quality > 0
        /\ Arguments(c).featured_only
        /\ Len(indexDoc.entries) = 2
        /\ Cardinality(Listed(c)) = 1

\* C7: with min_quality as the only filter, search keeps exactly the entries
\* whose quality_score, 0 when absent, is >= min_quality.
C7_MinQualityExact ==
    \A c \in Calls : (Searched(c) /\ DOMAIN Arguments(c) = {"min_quality"}) =>
        LET kept == {i \in 1..Len(indexDoc.entries) :
                        (IF Has(indexDoc.entries[i], "quality_score")
                         THEN indexDoc.entries[i].quality_score ELSE 0)
                            >= Arguments(c).min_quality}
        IN  /\ ~Outcome(c).threw
            /\ ~IsErrorSet(Envelope(c))
            /\ Listed(c) = {FormatEntry(indexDoc.entries[i]) : i \in kept}
            /\ kept # {} => TextOf(Envelope(c)).n = Cardinality(kept)

\* min_quality = 80: an entry scoring exactly 80 is listed, one without a
\* score is not
C7_Witness ==
    \E c \in Calls :
        /\ Searched(c)
        /\ DOMAIN Arguments(c) = {"min_quality"} /\ Arguments(c).min_quality = 80
        /\ Len(indexDoc.entries) = 2
        /\ Has(indexDoc.entries[1], "quality_score")
        /\ indexDoc.entries[1].quality_score = 80
        /\ ~Has(indexDoc.entries[2], "quality_score")
        /\ Listed(c) = {FormatEntry(indexDoc.entries[1])}

-----------------------------------------------------------------------------
(* Claims about the list-categories handler (SpecCategories) *)

RECURSIVE SumCounts(_)
SumCounts(lines) ==
    IF lines = <<>> THEN 0 ELSE Head(lines).count + SumCounts(Tail(lines))

\* call c is a list_categories call that has ended after a successful fetch
\* of the index
Counted(c) == Answered(c, "list_categories", Json(indexDoc))

\* the total the output reports and the sum of the counts of its blocks
ReportedTotal(c) == TextOf(Envelope(c)).count[1]
ReportedSum(c) == SumCounts(TextOf(Envelope(c)).lines)

AllDeclared(ix) ==
    \A e \in Range(ix.entries) : e.category \in Range(ix.categories)

Distinct(seq) == \A i, j \in 1..Len(seq) : seq[i] = seq[j] => i = j

\* one block per declared category, in order
BlocksFollowCategories(c) ==
    /\ ~Outcome(c).threw
    /\ ~IsErrorSet(Envelope(c))
    /\ Len(TextOf(Envelope(c)).lines) = Len(indexDoc.categories)
    /\ \A i \in 1..Len(indexDoc.categories) :
          TextOf(Envelope(c)).lines[i].cat = indexDoc.categories[i]

\* C6 as stated, for every index: the counts of the blocks, one per declared
\* category, sum to at most the reported total, IndexDocument.count.
C6_AsStated ==
    \A c \in Calls : Counted(c) =>
        /\ BlocksFollowCategories(c)
        /\ ReportedSum(c) <= ReportedTotal(c)

\* C6 amended: the same, for the indexes whose count field equals the number
\* of entries and whose declared categories are pairwise distinct.
C6_WellFormedIndex ==
    \A c \in Calls :
        (/\ Counted(c)
         /\ indexDoc.count = Len(indexDoc.entries)
         /\ Distinct(indexDoc.categories))
        => /\ BlocksFollowCategories(c)
           /\ ReportedSum(c) <= ReportedTotal(c)
           /\ AllDeclared(indexDoc) => ReportedSum(c) = ReportedTotal(c)

\* two entries, one of them in an undeclared category: the counts sum to 1
C6_Witness ==
    \E c \in Calls :
        /\ Counted(c)
        /\ indexDoc.count = 2 /\ Len(indexDoc.entries) = 2
        /\ indexDoc.categories = <<Skills, Workflows>>
        /\ ~AllDeclared(indexDoc)
        /\ ReportedSum(c) = 1 /\ ReportedTotal(c) = 2

-----------------------------------------------------------------------------
(* Claims about the dispatcher (Spec) *)

\* C1: every finished call holds a result envelope, never an exception; an
\* unknown name gives isError with "Unknown tool: {name}", an exception in a
\* handler gives isError with "Error: {message}".
C1_NeverThrows ==
    \A c \in Calls : Done(c) =>
        /\ result[c] # Null
        /\ ~Outcome(c).threw
        /\ Len(Envelope(c).content) = 1 /\ Envelope(c).content[1].type = "text"
        /\ request[c].name \notin KnownTools =>
              /\ IsErrorEnvelope(Envelope(c))
              /\ TextOf(Envelope(c)) = [tpl |-> "Unknown tool", name |-> request[c].name]
        /\ (request[c].name \in KnownTools /\ RunHandler(request[c], response[c]).threw) =>
              /\ IsErrorEnvelope(Envelope(c))
              /\ TextOf(Envelope(c)) =
                    [tpl |-> "Error",
                     message |-> RunHandler(request[c], response[c]).message]

\* a handler raised a TypeError on an index that parses but has no
\* categories, and the call still ended with an error envelope
C1_Witness ==
    \E c \in Calls :
        /\ Done(c)
        /\ request[c].name = "list_categories"
        /\ response[c] = Response(200, Json(BrokenIndex))
        /\ IsErrorEnvelope(Envelope(c))
        /\ TextOf(Envelope(c)).message = [tpl |-> "TypeError"]

IndexStatusFailed(c) ==
    /\ request[c].name \in IndexTools
    /\ response[c].kind = "response"
    /\ response[c].status \notin 200..299

\* C5: when the index endpoint answers a call of search, list-categories or
\* list-featured with a non-success status, the call returns isError = true
\* with a text that holds the status code, and no listing.
C5_IndexStatusSurfaces ==
    \A c \in Calls : (Done(c) /\ IndexStatusFailed(c)) =>
        /\ ~Outcome(c).threw
        /\ IsErrorEnvelope(Envelope(c))
        /\ TextOf(Envelope(c)).tpl = "Error"
        /\ TextOf(Envelope(c)).message =
              [tpl |-> "Registry unavailable", status |-> response[c].status]

\* get_featured answered with status 404: the call ended on the status,
\* without a read of the body
C5_Witness ==
    \E c \in Calls :
        /\ Done(c)
        /\ request[c].name = "get_featured"
        /\ response[c] = Headers(404)
        /\ IsErrorEnvelope(Envelope(c))
        /\ TextOf(Envelope(c)).message.status = 404

\* the fetch of call c failed: no response, a failure status, or a body
\* whose stream broke off
FetchFailed(c) ==
    \/ response[c].kind = "rejected"
    \/ response[c].kind = "response" /\ response[c].status \notin 200..299
    \/ response[c].kind = "response" /\ Has(response[c], "body")
          /\ response[c].body = Terminated

\* C9: a call issues at most one index fetch and at most one document fetch,
\* and a call whose fetch failed has ended with an error envelope after that
\* one fetch.
C9_AtMostOneFetch ==
    \A c \in Calls :
        /\ indexFetches[c] <= 1
        /\ docFetches[c] <= 1
        /\ FetchFailed(c) =>
              /\ Done(c)
              /\ indexFetches[c] + docFetches[c] = 1
              /\ ~Outcome(c).threw
              /\ IsErrorEnvelope(Envelope(c))

\* a search whose index fetch was rejected ended after its only fetch
C9_Witness ==
    \E c \in Calls :
        /\ Done(c)
        /\ request[c].name = "search_registry"
        /\ response[c] = Rejected
        /\ indexFetches[c] = 1 /\ docFetches[c] = 0
        /\ IsErrorEnvelope(Envelope(c))

CallState(c) ==
    <<pc[c], request[c], response[c], indexFetches[c], docFetches[c], result[c]>>

\* C10: every step belongs to one call and leaves the state of every other
\* call alone, and the result a call ends with is the dispatcher's result on
\* that call's own request and the response to its own fetch.
C10_CallsIndependent ==
    [][\E c \in Calls :
          /\ \A d \in Calls \ {c} : CallState(d)' = CallState(d)
          /\ pc'[c] = "done" =>
                result'[c] = Some(CallTool(request'[c], response'[c]))]_vars

\* two calls with the same request overlap: one has ended on a failed fetch
\* while the other one, whose own fetch succeeded, still waits for the body
C10_Witness ==
    \E c, d \in Calls :
        /\ c # d
        /\ request[c] = request[d]
        /\ Done(c) /\ FetchFailed(c)
        /\ pc[d] = "await_index_body" /\ response[d] = Headers(200)
        /\ result[d] = Null

====
